---------------------------- MODULE Spec2Model ----------------------------
(***************************************************************************)
(* State-machine model of the data-access layer of the used-cars ETL:      *)
(*   src/src/database/database.py  (class Database)                        *)
(*   src/src/orm/base.py           (class BaseORMModel)                    *)
(* Values are integers: 0 is Python None / SQL NULL, positive integers     *)
(* stand for strings, serial ids and timestamps.  A row (dict) is a        *)
(* function from column names to values.                                   *)
(***************************************************************************)
EXTENDS Integers, Sequences, FiniteSets, TLC

\* ------------------------------------------------------------------ bounds
MaxInst == 2      \* in-memory entity objects alive at once
MaxId == 2        \* rows a serial sequence hands out per table
MaxClock == 2     \* calls of datetime.now() in one behaviour
MaxVal == 1       \* distinct non-null field values

\* Python None, stored as SQL NULL by psycopg2
NULL == 0

Vals == 0..MaxVal
InstIds == 1..MaxInst

\* --------------------------------------------------- declared entity types
\* The entity types of tests/test_orm/models_for_test.py.  JointTable1Table2Test
\* declares no table_id and inherits the base class's empty list; JointKeyed is
\* the same table declared with its two-column key.
Classes == {"SiteTest", "Table1Test", "JointTable1Table2Test", "JointKeyed"}

table_name(cls) ==
  CASE cls = "SiteTest" -> "sites_testing"
    [] cls = "Table1Test" -> "table_1"
    [] OTHER -> "joint_table1_table2"

table_columns(cls) ==
  CASE cls = "SiteTest" -> <<"site_id", "name", "base_url", "created_at", "updated_at">>
    [] cls = "Table1Test" -> <<"t1_id", "name_t1">>
    [] OTHER -> <<"t1_id", "t2_id">>

table_id(cls) ==
  CASE cls = "SiteTest" -> <<"site_id">>
    [] cls = "Table1Test" -> <<"t1_id">>
    [] cls = "JointKeyed" -> <<"t1_id", "t2_id">>
    [] OTHER -> <<>>

ignored_columns_in_dict_record == {"updated_at", "created_at"}

\* The entity type whose objects the lifecycle specification constructs.
InstClasses == {"SiteTest"}

Range(s) == {s[k] : k \in 1..Len(s)}
ColumnSet(cls) == Range(table_columns(cls))
KeySet(cls) == Range(table_id(cls))

\* ------------------------------------------------------------- the store
Tables == {"sites_testing", "table_1", "joint_table1_table2"}

\* Primary-key columns the catalog (pg_index) reports for a table, in order.
CatalogKey(table) ==
  CASE table = "sites_testing" -> <<"site_id">>
    [] table = "table_1" -> <<"t1_id">>
    [] table = "joint_table1_table2" -> <<"t1_id", "t2_id">>
    [] OTHER -> <<>>

\* Columns of a stored row of the table.
StoreColumns(table) ==
  CASE table = "sites_testing" -> {"site_id", "name", "base_url", "created_at", "updated_at"}
    [] table = "table_1" -> {"t1_id", "name_t1"}
    [] OTHER -> {"t1_id", "t2_id"}

\* Tables whose single key column is filled from a serial sequence.
SerialTables == {"sites_testing", "table_1"}

VARIABLES
  db,         \* table -> set of rows visible on the connection (open transaction)
  committed,  \* table -> set of rows as of the last commit
  seq,        \* table -> next value of the table's serial sequence
  clock,      \* value the last call of now() returned
  inst,       \* slot -> in-memory entity object
  ret,        \* outcome of the last operation
  pool,       \* the Database class: its _instance and the objects constructed
  race,       \* two callers persisting concurrently, each on its own transaction
  scraper     \* the scraper object and the position of its fetch call

vars == <<db, committed, seq, clock, inst, ret, pool, race, scraper>>

\* Objects are kept in the lowest free slot.
FreeSlot(i) == ~inst[i].live /\ \A j \in InstIds : j < i => inst[j].live

NoAttrs == [c \in {} |-> NULL]
NoObject == [live |-> FALSE, cls |-> "", attrs |-> NoAttrs, is_dumped |-> FALSE]

\* A result: the operation, the object slot it ran on (0: none), how it ended,
\* the rows and key list it returned, and the statements it sent to the store.
Result(op, who, outcome, rows, key, sql) ==
  [op |-> op, who |-> who, outcome |-> outcome, rows |-> rows, key |-> key, sql |-> sql]

Stmt(verb, table, where) == [verb |-> verb, table |-> table, where |-> where]

\* Database._instance = None and no Database object constructed yet.  An object
\* is [conn, closed]: conn = 0 is an object that has no _connection attribute.
NoPool == [instance |-> 0, objs |-> <<>>, opened |-> 0]

\* The two concurrent callers of dump(): neither has started, nothing uncommitted.
Callers == 1..2
NoRace == [pc |-> [c \in Callers |-> "start"],
           saw |-> [c \in Callers |-> "False"],
           own |-> [c \in Callers |-> {}]]

\* No scraper object constructed yet.
NoScraper == [pc |-> "none", max_retries |-> 0, retry_backoff |-> 0,
              requests_total |-> 0, requests_failed |-> 0, requests_success |-> 0,
              retries_left |-> 0, delay_backoff |-> 0, attempts |-> 0, fails |-> 0,
              response |-> 0]

Init ==
  /\ db = [t \in Tables |-> {}]
  /\ committed = [t \in Tables |-> {}]
  /\ seq = [t \in Tables |-> 1]
  /\ clock = 0
  /\ inst = [i \in InstIds |-> NoObject]
  /\ ret = Result("init", 0, "ok", {}, <<>>, <<>>)
  /\ pool = NoPool
  /\ race = NoRace
  /\ scraper = NoScraper

\* getattr(self, col, None)
Attr(o, col) == IF col \in DOMAIN o.attrs THEN o.attrs[col] ELSE NULL

dict_record(o) ==
  [col \in ColumnSet(o.cls) \ ignored_columns_in_dict_record |-> Attr(o, col)]

pk(o) == [k \in 1..Len(table_id(o.cls)) |-> Attr(o, table_id(o.cls)[k])]

\* dict_record without the primary-key columns
dict_record_without_pk(o) ==
  [col \in (DOMAIN dict_record(o)) \ KeySet(o.cls) |-> dict_record(o)[col]]

\* The store's "=": a comparison with NULL is never true.
SqlEq(a, b) == a # NULL /\ b # NULL /\ a = b

\* Rows a "col = %s AND ..." WHERE clause selects.
EqualityMatches(rows, conditions) ==
  {r \in rows : \A col \in DOMAIN conditions : SqlEq(r[col], conditions[col])}

\* Mutant: the lookup without its check for several rows.
select_unique_record_first(rows, table, conditions) ==
  LET where == {<<col, "=">> : col \in DOMAIN conditions}
      found == EqualityMatches(rows, conditions)
      sent == <<Stmt("SELECT", table, where)>>
  IN  IF DOMAIN conditions = {}
        THEN [outcome |-> "ValueError_EmptyConditions", rows |-> {}, sql |-> <<>>]
      ELSE IF Cardinality(found) = 0
        THEN [outcome |-> "ok", rows |-> {}, sql |-> sent]
      ELSE [outcome |-> "ok", rows |-> {CHOOSE r \in found : TRUE}, sql |-> sent]

select_unique_record(rows, table, conditions) ==
  LET where == {<<col, "=">> : col \in DOMAIN conditions}
      found == EqualityMatches(rows, conditions)
      sent == <<Stmt("SELECT", table, where)>>
  IN  IF DOMAIN conditions = {}
        THEN [outcome |-> "ValueError_EmptyConditions", rows |-> {}, sql |-> <<>>]
      ELSE IF Cardinality(found) = 0
        THEN [outcome |-> "ok", rows |-> {}, sql |-> sent]
      ELSE IF Cardinality(found) > 1
        THEN [outcome |-> "ValueError_Ambiguous", rows |-> {}, sql |-> sent]
      ELSE [outcome |-> "ok", rows |-> found, sql |-> sent]


\* col.startswith("_")
IsPrivate(col) == col \in {"_internal_col"}

Min(a, b) == IF a < b THEN a ELSE b

\* dict(zip(columns, values)) without the private columns
ZipRecord(columns, values) ==
  LET n == Min(Len(columns), Len(values))
      keep == {k \in 1..n : ~IsPrivate(columns[k])}
      last(col) == CHOOSE k \in keep : columns[k] = col /\ \A j \in keep : columns[j] = col => j <= k
  IN  [col \in {columns[k] : k \in keep} |-> values[last(col)]]

\* Value the store gives a column the INSERT statement does not name.
StoreDefault(seqv, table, col) ==
  IF table \in SerialTables /\ col = CatalogKey(table)[1] THEN seqv[table] ELSE NULL

\* INSERT INTO table (fields) VALUES (...) RETURNING *
insert_record(rows, seqv, table, columns, values) ==
  LET record == ZipRecord(columns, values)
      row == [col \in StoreColumns(table) |->
                IF col \in DOMAIN record THEN record[col] ELSE StoreDefault(seqv, table, col)]
      key == CatalogKey(table)
      clash == \E r \in rows : \A k \in 1..Len(key) : r[key[k]] = row[key[k]]
      sent == <<Stmt("INSERT", table, {})>>
  IN  IF DOMAIN record = {} \/ ~(DOMAIN record \subseteq StoreColumns(table)) \/ clash
           \/ \E k \in 1..Len(key) : row[key[k]] = NULL
        THEN [outcome |-> "StoreError", rows |-> {}, sql |-> sent]
      ELSE [outcome |-> "ok", rows |-> {row}, sql |-> sent]

\* The serial sequence advances when the INSERT leaves the key column to the store.
SeqAfterInsert(seqv, table, columns, values) ==
  IF table \in SerialTables /\ CatalogKey(table)[1] \notin DOMAIN ZipRecord(columns, values)
    THEN [seqv EXCEPT ![table] = @ + 1]
    ELSE seqv

\* BaseORMModel.__init__ through a subclass constructor: the positional fields,
\* created_at = now(), updated_at = None, is_dumped = False.
Construct(i, cls, fields) ==
  /\ UNCHANGED <<pool, race, scraper>>
  /\ /\ FreeSlot(i)
     /\ clock < MaxClock
     /\ LET ticks == "created_at" \in ColumnSet(cls)
            stamps == [col \in ColumnSet(cls) \cap ignored_columns_in_dict_record |->
                         IF col = "created_at" THEN clock + 1 ELSE NULL]
            attrs == [col \in DOMAIN fields \cup DOMAIN stamps |->
                         IF col \in DOMAIN fields THEN fields[col] ELSE stamps[col]]
        IN  /\ inst' = [inst EXCEPT ![i] =
                          [live |-> TRUE, cls |-> cls, attrs |-> attrs, is_dumped |-> FALSE]]
            /\ clock' = IF ticks THEN clock + 1 ELSE clock
     /\ ret' = Result("init", i, "ok", {}, <<>>, <<>>)
     /\ UNCHANGED <<db, committed, seq>>

\* Fields a subclass constructor takes: every column but the key and the timestamps.
FieldColumns(cls) == (ColumnSet(cls) \ KeySet(cls)) \ ignored_columns_in_dict_record

\* Mutant: copying the key also resets the flag.
WithKey_ResetsFlag(o, row) ==
  [live |-> TRUE, cls |-> o.cls,
   attrs |-> [col \in DOMAIN o.attrs \cup KeySet(o.cls) |->
                IF col \in KeySet(o.cls) THEN row[col] ELSE o.attrs[col]],
   is_dumped |-> FALSE]

\* setattr(self, col, record[col]) for every key column
WithKey(o, row) ==
  [o EXCEPT !.attrs = [col \in DOMAIN o.attrs \cup KeySet(o.cls) |->
                          IF col \in KeySet(o.cls) THEN row[col] ELSE o.attrs[col]]]

KeyOf(cls, row) == [k \in 1..Len(table_id(cls)) |-> row[table_id(cls)[k]]]

TheRow(rows) == CHOOSE r \in rows : TRUE

\* Sequence of the elements of a set of column names, in declared column order.
InOrder(cls, cols) ==
  LET F[k \in 0..Len(table_columns(cls))] ==
        IF k = 0 THEN <<>>
        ELSE IF table_columns(cls)[k] \in cols THEN Append(F[k - 1], table_columns(cls)[k])
        ELSE F[k - 1]
  IN  F[Len(table_columns(cls))]

\* The record_exists property: bool(record) of the unique lookup on the non-key fields.
record_exists(rows, o) ==
  LET res == select_unique_record(rows, table_name(o.cls), dict_record_without_pk(o))
  IN  [outcome |-> IF res.outcome # "ok" THEN res.outcome
                   ELSE IF res.rows # {} THEN "True" ELSE "False",
       rows |-> res.rows, sql |-> res.sql]

\* obj.record_exists read by a caller.
RecordExists(i) ==
  /\ UNCHANGED <<pool, race, scraper>>
  /\ /\ inst[i].live
     /\ LET res == record_exists(db[table_name(inst[i].cls)], inst[i])
        IN  ret' = Result("record_exists", i, res.outcome, {}, <<>>, res.sql)
     /\ UNCHANGED <<db, committed, seq, clock, inst>>

\* Mutant: the duplicate check without the force flag.
DumpFindsDuplicate_IgnoresForce(o, force, exists) == exists.outcome = "True"

\* dump(): the duplicate check of lines 302-309
DumpFindsDuplicate(o, force, exists) == ~force /\ exists.outcome = "True"

\* Mutant: the insert path without "self._is_dumped = True".
DumpInserted_NoFlag(o, row) == WithKey(o, row)

\* dump(): the object after a successful insert
DumpInserted(o, row) == [WithKey(o, row) EXCEPT !.is_dumped = TRUE]

\* How the store can fail an INSERT that is well formed: an error it reports, or
\* no row returned for RETURNING * (insert_record raises RuntimeError, line 162).
Faults == {"StoreError", "RuntimeError_NoRow"}

\* insert_record when the store answers with the fault; "none" is no fault.
Faulty(res, fault) ==
  IF fault = "none" \/ res.outcome # "ok" THEN res
  ELSE [outcome |-> fault, rows |-> {}, sql |-> res.sql]

\* Mutant: the flag is set before insert_record is called.
DumpFailed_Flagged(o) == [o EXCEPT !.is_dumped = TRUE]

\* dump(): the object when insert_record raised (nothing is assigned before
\* the call returns)
DumpFailed(o) == o

\* dump(force) with the store's answer to the INSERT as an input.
DumpUnder(i, force, fault) ==
  /\ UNCHANGED <<pool, race, scraper>>
  /\ /\ inst[i].live
     /\ LET o == inst[i]
            table == table_name(o.cls)
            payload == dict_record_without_pk(o)
            exists == record_exists(db[table], o)
            again == select_unique_record(db[table], table, payload)
            cols == InOrder(o.cls, DOMAIN payload)
            columns == IF "created_at" \in ColumnSet(o.cls) THEN Append(cols, "created_at") ELSE cols
            values == [k \in 1..Len(columns) |-> Attr(o, columns[k])]
            ins == Faulty(insert_record(db[table], seq, table, columns, values), fault)
        IN  IF ~force /\ exists.outcome \notin {"True", "False"}
              THEN /\ ret' = Result("dump", i, exists.outcome, {}, <<>>, exists.sql)
                   /\ UNCHANGED <<db, committed, seq, clock, inst>>
            ELSE IF DumpFindsDuplicate(o, force, exists)
              THEN /\ inst' = [inst EXCEPT ![i] = WithKey(o, TheRow(again.rows))]
                   /\ ret' = Result("dump", i, "duplicate", again.rows,
                                    KeyOf(o.cls, TheRow(again.rows)), exists.sql \o again.sql)
                   /\ UNCHANGED <<db, committed, seq, clock>>
            ELSE /\ seq[table] <= MaxId
                 /\ IF ins.outcome = "ok"
                      THEN /\ db' = [db EXCEPT ![table] = @ \cup ins.rows]
                           /\ seq' = SeqAfterInsert(seq, table, columns, values)
                           /\ inst' = [inst EXCEPT ![i] = DumpInserted(o, TheRow(ins.rows))]
                           /\ ret' = Result("dump", i, "inserted", ins.rows,
                                            KeyOf(o.cls, TheRow(ins.rows)),
                                            (IF force THEN <<>> ELSE exists.sql) \o ins.sql)
                           /\ UNCHANGED <<committed, clock>>
                      ELSE /\ inst' = [inst EXCEPT ![i] = DumpFailed(o)]
                           /\ ret' = Result("dump", i, ins.outcome, {}, <<>>,
                                            (IF force THEN <<>> ELSE exists.sql) \o ins.sql)
                           /\ UNCHANGED <<db, committed, seq, clock>>

\* dump(force) on a store that answers every well-formed INSERT.
Dump(i, force) ==
  /\ inst[i].live
  /\ DumpUnder(i, force, "none")

\* ------------------------------------------------ optional arguments
\* A parameter that defaults to None: given = FALSE is None.
None == [given |-> FALSE, val |-> <<>>]
Some(v) == [given |-> TRUE, val |-> v]
\* Python truth of an optional list: None and [] are both false.
Truthy(x) == x.given /\ Len(x.val) > 0

\* An operator argument that is no comparison operator: spliced into the
\* statement it reads  "col" IS NOT NULL AND 1 = %s.
FreeText == "IS NOT NULL AND 1 ="

\* The store's comparison for one WHERE condition; NULL on either side is not true.
SqlCompare(op, a, b) ==
  /\ a # NULL
  /\ b # NULL
  /\ CASE op = "=" -> a = b
       [] op = ">" -> a > b
       [] op = "<" -> a < b
       [] op = FreeText -> b = 1
       [] OTHER -> FALSE

\* Rows selected by "c1 op1 %s AND c2 op2 %s ..." built from zip(where_columns, where_operators)
WhereMatches(rows, wc, wo, wv) ==
  {r \in rows : \A k \in 1..Min(Len(wc), Len(wo)) : SqlCompare(wo[k], r[wc[k]], wv[k])}

WhereOf(wc, wo) == {<<wc[k], wo[k]>> : k \in 1..Min(Len(wc), Len(wo))}

\* Mutant: the guard without its else branch.
DeleteGuard_NoSafety(wc, wo, wv) ==
  IF Truthy(wc) \/ Truthy(wo) \/ Truthy(wv)
    THEN IF ~wc.given \/ ~wo.given THEN "TypeError"
         ELSE IF Len(wc.val) # Len(wo.val) THEN "ValueError_Shape"
         ELSE IF ~wv.given THEN "TypeError"
         ELSE IF Len(wo.val) # Len(wv.val) THEN "ValueError_Shape"
         ELSE "go"
    ELSE "go"

\* The guard at the head of delete_records (lines 315-319), "go" when it lets the call through.
DeleteGuard(wc, wo, wv) ==
  IF Truthy(wc) \/ Truthy(wo) \/ Truthy(wv)
    THEN IF ~wc.given \/ ~wo.given THEN "TypeError"
         ELSE IF Len(wc.val) # Len(wo.val) THEN "ValueError_Shape"
         ELSE IF ~wv.given THEN "TypeError"
         ELSE IF Len(wo.val) # Len(wv.val) THEN "ValueError_Shape"
         ELSE "go"
    ELSE "ValueError_UnsafeDelete"

\* DELETE FROM table WHERE ... RETURNING *
delete_records(rows, table, wc, wo, wv) ==
  LET guard == DeleteGuard(wc, wo, wv)
      sent == <<Stmt("DELETE", table, WhereOf(wc.val, wo.val))>>
  IN  IF guard # "go"
        THEN [outcome |-> guard, rows |-> {}, sql |-> <<>>]
      ELSE IF ~(Range(wc.val) \subseteq StoreColumns(table))
        THEN [outcome |-> "StoreError", rows |-> {}, sql |-> sent]
      ELSE [outcome |-> "ok", rows |-> WhereMatches(rows, wc.val, wo.val, wv.val), sql |-> sent]

\* A direct call of Database.delete_records by other code on the connection.
DeleteRecords(table, wc, wo, wv) ==
  /\ UNCHANGED <<pool, race, scraper>>
  /\ /\ LET res == delete_records(db[table], table, wc, wo, wv)
        IN  /\ db' = [db EXCEPT ![table] = @ \ res.rows]
            /\ ret' = Result("delete", 0, res.outcome, res.rows, <<>>, res.sql)
     /\ UNCHANGED <<committed, seq, clock, inst>>

\* A direct call of Database.select_unique_record.
SelectUnique(table, conditions) ==
  /\ UNCHANGED <<pool, race, scraper>>
  /\ /\ LET res == select_unique_record(db[table], table, conditions)
        IN  ret' = Result("select_unique", 0, res.outcome, res.rows, <<>>, res.sql)
     /\ UNCHANGED <<db, committed, seq, clock, inst>>

\* connection.commit()
Commit ==
  /\ UNCHANGED <<pool, race, scraper>>
  /\ /\ committed' = db
     /\ ret' = Result("commit", 0, "ok", {}, <<>>, <<>>)
     /\ UNCHANGED <<db, seq, clock, inst>>

\* connection.rollback(): the open transaction's changes are dropped; the serial
\* sequences and the objects in memory are not rolled back.
Rollback ==
  /\ UNCHANGED <<pool, race, scraper>>
  /\ /\ db' = committed
     /\ ret' = Result("rollback", 0, "ok", {}, <<>>, <<>>)
     /\ UNCHANGED <<committed, seq, clock, inst>>

\* ------------------------------------------------ access by primary key
\* The catalog query every call of get_primary_key_column sends.
CatalogQuery(table) == Stmt("SELECT", "pg_index", {<<table, "regclass">>})

\* What get_primary_key_column makes of the rows fetchall() returned (lines
\* 117-127): str for one row (list = FALSE), list[str] for several.
PrimaryKeyFrom(rows) ==
  IF Len(rows) = 0
    THEN [outcome |-> "ValueError_NoPrimaryKey", list |-> FALSE, cols |-> <<>>]
  ELSE IF Len(rows) > 1
    THEN [outcome |-> "ok", list |-> TRUE, cols |-> rows]
  ELSE [outcome |-> "ok", list |-> FALSE, cols |-> <<rows[1]>>]

\* The answers the catalog query can give: one row per key column.  The query
\* has no ORDER BY, so the store is free in the order of the rows.
CatalogAnswers(table) ==
  LET key == CatalogKey(table)
  IN  {rows \in [1..Len(key) -> Range(key)] : Range(rows) = Range(key)}

\* get_primary_key_column as select_record_by_id and update_record_by_id use it:
\* they read the column of a single-column key and only the shape of a composite
\* one, so the order of the answer does not reach them.
get_primary_key_column(table) == PrimaryKeyFrom(CatalogKey(table))

\* A direct call of Database.get_primary_key_column; the outcome of a call that
\* returns is the type of the value returned.
GetPrimaryKey(table) ==
  /\ UNCHANGED <<pool, race, scraper>>
  /\ /\ \E rows \in CatalogAnswers(table) :
          LET res == PrimaryKeyFrom(rows)
          IN  ret' = Result("get_primary_key", 0,
                            IF res.outcome # "ok" THEN res.outcome
                            ELSE IF res.list THEN "list" ELSE "str",
                            {}, res.cols, <<CatalogQuery(table)>>)
     /\ UNCHANGED <<db, committed, seq, clock, inst>>

\* The id argument: a scalar, or a Python list of key values.
ScalarId(v) == [list |-> FALSE, val |-> <<v>>]
ListId(vs) == [list |-> TRUE, val |-> vs]

\* Mutant: a lookup that finds no row raises.
select_record_by_id_RaisesOnMiss(rows, table, id) ==
  LET key == get_primary_key_column(table)
      cat == <<CatalogQuery(table)>>
      sent == cat \o <<Stmt("SELECT", table, {<<key.cols[1], "=">>})>>
      found == {r \in rows : SqlEq(r[key.cols[1]], id.val[1])}
  IN  IF key.outcome # "ok" THEN [outcome |-> key.outcome, rows |-> {}, sql |-> cat]
      ELSE IF key.list THEN [outcome |-> "TypeError", rows |-> {}, sql |-> cat]
      ELSE IF id.list THEN [outcome |-> "StoreError", rows |-> {}, sql |-> sent]
      ELSE IF found = {} THEN [outcome |-> "ValueError_NotFound", rows |-> {}, sql |-> sent]
      ELSE [outcome |-> "ok", rows |-> found, sql |-> sent]

\* Mutant: a key value of None compared with "IS NOT DISTINCT FROM", so that it
\* finds the first row stored.
select_record_by_id_NullFinds(rows, table, id) ==
  LET key == get_primary_key_column(table)
      cat == <<CatalogQuery(table)>>
      sent == cat \o <<Stmt("SELECT", table, {<<key.cols[1], "=">>})>>
      found == {r \in rows : SqlEq(r[key.cols[1]], id.val[1])}
      any == IF rows = {} THEN {} ELSE {CHOOSE r \in rows : TRUE}
  IN  IF key.outcome # "ok" THEN [outcome |-> key.outcome, rows |-> {}, sql |-> cat]
      ELSE IF key.list THEN [outcome |-> "TypeError", rows |-> {}, sql |-> cat]
      ELSE IF id.list THEN [outcome |-> "StoreError", rows |-> {}, sql |-> sent]
      ELSE [outcome |-> "ok", rows |-> IF id.val[1] = NULL THEN any ELSE found, sql |-> sent]

\* SELECT * FROM table WHERE id_col = %s; fetchone().  sql.Identifier(id_col)
\* takes strings only, and a list bound to %s reaches the store as an array.
select_record_by_id(rows, table, id) ==
  LET key == get_primary_key_column(table)
      cat == <<CatalogQuery(table)>>
      sent == cat \o <<Stmt("SELECT", table, {<<key.cols[1], "=">>})>>
      found == {r \in rows : SqlEq(r[key.cols[1]], id.val[1])}
  IN  IF key.outcome # "ok" THEN [outcome |-> key.outcome, rows |-> {}, sql |-> cat]
      ELSE IF key.list THEN [outcome |-> "TypeError", rows |-> {}, sql |-> cat]
      ELSE IF id.list THEN [outcome |-> "StoreError", rows |-> {}, sql |-> sent]
      ELSE [outcome |-> "ok", rows |-> found, sql |-> sent]

\* The length checks at the head of update_records (lines 252-256).
UpdateGuard(columns, values, wc, wo, wv) ==
  IF Len(columns) # Len(values) THEN "ValueError_Length"
  ELSE IF Truthy(wc) \/ Truthy(wo) \/ Truthy(wv)
    THEN IF ~wc.given \/ ~wo.given THEN "TypeError"
         ELSE IF Len(wc.val) # Len(wo.val) THEN "ValueError_Shape"
         ELSE IF ~wv.given THEN "TypeError"
         ELSE IF Len(wo.val) # Len(wv.val) THEN "ValueError_Shape"
         ELSE "go"
  ELSE "go"

\* A row after SET c1 = v1, c2 = v2, ...
Assigned(r, columns, values) ==
  [col \in DOMAIN r |->
     IF col \in Range(columns) THEN values[CHOOSE k \in 1..Len(columns) : columns[k] = col]
     ELSE r[col]]

\* UPDATE table SET ... [WHERE ...] RETURNING *: the rows updated and the table after.
update_records(rows, table, columns, values, wc, wo, wv) ==
  LET guard == UpdateGuard(columns, values, wc, wo, wv)
      where == IF Truthy(wc) THEN WhereOf(wc.val, wo.val) ELSE {}
      sent == <<Stmt("UPDATE", table, where)>>
      hit == IF Truthy(wc) THEN WhereMatches(rows, wc.val, wo.val, wv.val) ELSE rows
      new == {Assigned(r, columns, values) : r \in hit}
      after == (rows \ hit) \cup new
      key == CatalogKey(table)
      badSet == \/ Len(columns) = 0
                \/ ~(Range(columns) \subseteq StoreColumns(table))
                \/ Cardinality(Range(columns)) # Len(columns)
      badWhere == Truthy(wc) /\ ~(Range(wc.val) \subseteq StoreColumns(table))
      clash == \/ Cardinality(after) # Cardinality(rows)
               \/ \E r1, r2 \in after : r1 # r2 /\ \A k \in 1..Len(key) : r1[key[k]] = r2[key[k]]
               \/ \E r \in new : \E k \in 1..Len(key) : r[key[k]] = NULL
  IN  IF guard # "go" THEN [outcome |-> guard, rows |-> {}, after |-> rows, sql |-> <<>>]
      ELSE IF badSet \/ badWhere \/ clash
        THEN [outcome |-> "StoreError", rows |-> {}, after |-> rows, sql |-> sent]
      ELSE [outcome |-> "ok", rows |-> new, after |-> after, sql |-> sent]

\* list(d.keys()): the keys of a dict, one after another.
RECURSIVE KeyList(_)
KeyList(cols) ==
  IF cols = {} THEN <<>>
  ELSE LET c == CHOOSE x \in cols : TRUE IN <<c>> \o KeyList(cols \ {c})

\* The patch update_record_by_id builds from its two calling styles (lines 412-433).
PatchOf(dict_new_values, columns, new_values) ==
  IF dict_new_values.given
    THEN IF Truthy(columns) \/ Truthy(new_values)
           THEN [outcome |-> "ValueError_BothForms", patch |-> NoAttrs]
         ELSE [outcome |-> "ok", patch |-> dict_new_values.val]
  ELSE IF ~columns.given \/ ~new_values.given
    THEN [outcome |-> "ValueError_NoForm", patch |-> NoAttrs]
  ELSE IF Len(columns.val) # Len(new_values.val)
    THEN [outcome |-> "ValueError_Length", patch |-> NoAttrs]
  ELSE [outcome |-> "ok",
        patch |-> [col \in Range(columns.val) |->
                     new_values.val[CHOOSE k \in 1..Len(columns.val) :
                        columns.val[k] = col /\ \A j \in 1..Len(columns.val) :
                                                   columns.val[j] = col => j <= k]]]

\* Mutant: the private columns are not removed from the patch.
update_record_by_id_KeepsPrivate(rows, table, id, dict_new_values, columns, new_values) ==
  LET key == get_primary_key_column(table)
      existing == select_record_by_id(rows, table, id)
      form == PatchOf(dict_new_values, columns, new_values)
      public == form.patch
      cols == KeyList(DOMAIN public)
      vals == [k \in 1..Len(cols) |-> public[cols[k]]]
      upd == update_records(rows, table, cols, vals,
                            Some(key.cols), Some(<<"=">>), Some(id.val))
      before == <<CatalogQuery(table)>> \o existing.sql
  IN  IF key.outcome # "ok"
        THEN [outcome |-> key.outcome, rows |-> {}, after |-> rows, sql |-> <<CatalogQuery(table)>>]
      ELSE IF existing.outcome # "ok"
        THEN [outcome |-> existing.outcome, rows |-> {}, after |-> rows, sql |-> before]
      ELSE IF existing.rows = {}
        THEN [outcome |-> "ValueError_NotFound", rows |-> {}, after |-> rows, sql |-> before]
      ELSE IF form.outcome # "ok"
        THEN [outcome |-> form.outcome, rows |-> {}, after |-> rows, sql |-> before]
      ELSE IF DOMAIN public = {}
        THEN [outcome |-> "ValueError_NoUpdatable", rows |-> {}, after |-> rows, sql |-> before]
      ELSE [outcome |-> upd.outcome, rows |-> upd.rows, after |-> upd.after,
            sql |-> before \o upd.sql]

update_record_by_id(rows, table, id, dict_new_values, columns, new_values) ==
  LET key == get_primary_key_column(table)
      existing == select_record_by_id(rows, table, id)
      form == PatchOf(dict_new_values, columns, new_values)
      public == [col \in {c \in DOMAIN form.patch : ~IsPrivate(c)} |-> form.patch[col]]
      cols == KeyList(DOMAIN public)
      vals == [k \in 1..Len(cols) |-> public[cols[k]]]
      upd == update_records(rows, table, cols, vals,
                            Some(key.cols), Some(<<"=">>), Some(id.val))
      before == <<CatalogQuery(table)>> \o existing.sql
  IN  IF key.outcome # "ok"
        THEN [outcome |-> key.outcome, rows |-> {}, after |-> rows, sql |-> <<CatalogQuery(table)>>]
      ELSE IF existing.outcome # "ok"
        THEN [outcome |-> existing.outcome, rows |-> {}, after |-> rows, sql |-> before]
      ELSE IF existing.rows = {}
        THEN [outcome |-> "ValueError_NotFound", rows |-> {}, after |-> rows, sql |-> before]
      ELSE IF form.outcome # "ok"
        THEN [outcome |-> form.outcome, rows |-> {}, after |-> rows, sql |-> before]
      ELSE IF DOMAIN public = {}
        THEN [outcome |-> "ValueError_NoUpdatable", rows |-> {}, after |-> rows, sql |-> before]
      ELSE [outcome |-> upd.outcome, rows |-> upd.rows, after |-> upd.after,
            sql |-> before \o upd.sql]

\* The length check select_records makes when where_columns is given (lines 206-208).
SelectGuard(wc, wo, wv) ==
  IF Truthy(wc)
    THEN IF ~wo.given THEN "TypeError"
         ELSE IF Len(wc.val) # Len(wo.val) THEN "ValueError_Shape"
         ELSE IF ~wv.given THEN "TypeError"
         ELSE IF Len(wo.val) # Len(wv.val) THEN "ValueError_Shape"
         ELSE "go"
  ELSE "go"

\* SELECT * FROM table [WHERE ...].  Without where_columns the query has no
\* placeholder, and the parameters passed with it are not used.
select_records(rows, table, wc, wo, wv) ==
  LET guard == SelectGuard(wc, wo, wv)
      where == IF Truthy(wc) THEN WhereOf(wc.val, wo.val) ELSE {}
      sent == <<Stmt("SELECT", table, where)>>
      hit == IF Truthy(wc) THEN WhereMatches(rows, wc.val, wo.val, wv.val) ELSE rows
  IN  IF guard # "go" THEN [outcome |-> guard, rows |-> {}, sql |-> <<>>]
      ELSE IF Truthy(wc) /\ ~(Range(wc.val) \subseteq StoreColumns(table))
        THEN [outcome |-> "StoreError", rows |-> {}, sql |-> sent]
      ELSE [outcome |-> "ok", rows |-> hit, sql |-> sent]

\* A direct call of Database.select_records with columns = '*'.
SelectRecords(table, wc, wo, wv) ==
  /\ UNCHANGED <<pool, race, scraper>>
  /\ /\ LET res == select_records(db[table], table, wc, wo, wv)
        IN  ret' = Result("select", 0, res.outcome, res.rows, <<>>, res.sql)
     /\ UNCHANGED <<db, committed, seq, clock, inst>>

\* A direct call of Database.update_records.
UpdateRecords(table, columns, values, wc, wo, wv) ==
  /\ UNCHANGED <<pool, race, scraper>>
  /\ /\ LET res == update_records(db[table], table, columns, values, wc, wo, wv)
        IN  /\ db' = [db EXCEPT ![table] = res.after]
            /\ ret' = Result("update_records", 0, res.outcome, res.rows, <<>>, res.sql)
     /\ UNCHANGED <<committed, seq, clock, inst>>

\* A direct call of Database.select_record_by_id.
SelectById(table, id) ==
  /\ UNCHANGED <<pool, race, scraper>>
  /\ /\ LET res == select_record_by_id(db[table], table, id)
        IN  ret' = Result("select_by_id", 0, res.outcome, res.rows, id.val, res.sql)
     /\ UNCHANGED <<db, committed, seq, clock, inst>>

\* A direct call of Database.update_record_by_id.
UpdateById(table, id, dict_new_values, columns, new_values) ==
  /\ UNCHANGED <<pool, race, scraper>>
  /\ /\ LET res == update_record_by_id(db[table], table, id, dict_new_values, columns, new_values)
        IN  /\ db' = [db EXCEPT ![table] = res.after]
            /\ ret' = Result("update_by_id", 0, res.outcome, res.rows, id.val, res.sql)
     /\ UNCHANGED <<committed, seq, clock, inst>>

\* ---------------------------------------------------- update and loading
\* The columns argument of update(): '*' or a list of names.
Star == [star |-> TRUE, list |-> <<>>]
Listed(cols) == [star |-> FALSE, list |-> cols]

\* Mutant: update('*') collects no field of the object.
UpdateDict_NoFields(o, columns) ==
  IF columns.star THEN [outcome |-> "ok", dict |-> NoAttrs]
  ELSE IF \E k \in 1..Len(columns.list) : columns.list[k] \notin ColumnSet(o.cls)
    THEN [outcome |-> "ValueError_InvalidColumn", dict |-> NoAttrs]
  ELSE IF \E k \in 1..Len(columns.list) : columns.list[k] \notin DOMAIN dict_record(o)
    THEN [outcome |-> "KeyError", dict |-> NoAttrs]
  ELSE [outcome |-> "ok", dict |-> [col \in Range(columns.list) |-> dict_record(o)[col]]]

\* The column/value pairs update() collects (lines 355-370).
UpdateDict(o, columns) ==
  LET payload == dict_record_without_pk(o)
  IN  IF columns.star THEN [outcome |-> "ok", dict |-> payload]
      ELSE IF \E k \in 1..Len(columns.list) : columns.list[k] \notin ColumnSet(o.cls)
        THEN [outcome |-> "ValueError_InvalidColumn", dict |-> NoAttrs]
      ELSE IF \E k \in 1..Len(columns.list) : columns.list[k] \notin DOMAIN dict_record(o)
        THEN [outcome |-> "KeyError", dict |-> NoAttrs]
      ELSE [outcome |-> "ok", dict |-> [col \in Range(columns.list) |-> dict_record(o)[col]]]

Update(i, columns) ==
  /\ UNCHANGED <<pool, race, scraper>>
  /\ /\ inst[i].live
     /\ LET o == inst[i]
            table == table_name(o.cls)
            picked == UpdateDict(o, columns)
            stamped == "updated_at" \in ColumnSet(o.cls)
            updated_at == clock + 1
            update_dict == [col \in DOMAIN picked.dict \cup (IF stamped THEN {"updated_at"} ELSE {}) |->
                              IF col = "updated_at" /\ stamped THEN updated_at ELSE picked.dict[col]]
            res == update_record_by_id(db[table], table, ScalarId(pk(o)[1]),
                                       Some(update_dict), None, None)
        IN  IF picked.outcome # "ok"
              THEN /\ ret' = Result("update", i, picked.outcome, {}, <<>>, <<>>)
                   /\ UNCHANGED <<db, committed, seq, clock, inst>>
            ELSE /\ stamped => clock < MaxClock
                 /\ clock' = IF stamped THEN updated_at ELSE clock
                 /\ IF Len(table_id(o.cls)) = 0
                      THEN /\ ret' = Result("update", i, "IndexError", {}, <<>>, <<>>)
                           /\ UNCHANGED <<db, inst>>
                    ELSE IF res.outcome # "ok"
                      THEN /\ ret' = Result("update", i, res.outcome, {}, <<>>, res.sql)
                           /\ UNCHANGED <<db, inst>>
                    ELSE /\ db' = [db EXCEPT ![table] = res.after]
                         /\ IF stamped
                              THEN /\ inst' = [inst EXCEPT ![i].attrs["updated_at"] = updated_at]
                                   /\ ret' = Result("update", i, "ok", res.rows, pk(o), res.sql)
                              ELSE /\ ret' = Result("update", i, "UnboundLocalError", res.rows, <<>>, res.sql)
                                   /\ UNCHANGED inst
                 /\ UNCHANGED <<committed, seq>>

\* Mutant: the composite-key check made before the arity check.
from_id_in_database_Swapped(rows, cls, record_id) ==
  LET rec == select_record_by_id(rows, table_name(cls), ScalarId(record_id[1]))
  IN  IF Len(table_id(cls)) # 1
        THEN [outcome |-> "NotImplementedError", rows |-> {}, sql |-> <<>>]
      ELSE IF Len(record_id) # Len(table_id(cls))
        THEN [outcome |-> "ValueError_KeyArity", rows |-> {}, sql |-> <<>>]
      ELSE IF rec.outcome # "ok" THEN rec
      ELSE IF rec.rows = {}
        THEN [outcome |-> "ValueError_NotFound", rows |-> {}, sql |-> rec.sql]
      ELSE rec

\* from_id_in_database: how the call ends, before an object is built.
from_id_in_database(rows, cls, record_id) ==
  LET rec == select_record_by_id(rows, table_name(cls), ScalarId(record_id[1]))
  IN  IF Len(record_id) # Len(table_id(cls))
        THEN [outcome |-> "ValueError_KeyArity", rows |-> {}, sql |-> <<>>]
      ELSE IF Len(table_id(cls)) # 1
        THEN [outcome |-> "NotImplementedError", rows |-> {}, sql |-> <<>>]
      ELSE IF rec.outcome # "ok" THEN rec
      ELSE IF rec.rows = {}
        THEN [outcome |-> "ValueError_NotFound", rows |-> {}, sql |-> rec.sql]
      ELSE rec

\* Mutant: the loaded object is not marked as persisted.
Loaded_Transient(cls, row) ==
  [live |-> TRUE, cls |-> cls, attrs |-> [col \in ColumnSet(cls) |-> row[col]],
   is_dumped |-> FALSE]

\* The object from_id_in_database builds from a row, without __init__.
Loaded(cls, row) ==
  [live |-> TRUE, cls |-> cls, attrs |-> [col \in ColumnSet(cls) |-> row[col]],
   is_dumped |-> TRUE]

\* cls.from_id_in_database(record_id), the object it returns kept in slot i.
Load(i, cls, record_id) ==
  /\ UNCHANGED <<pool, race, scraper>>
  /\ /\ FreeSlot(i)
     /\ LET res == from_id_in_database(db[table_name(cls)], cls, record_id)
        IN  IF res.outcome = "ok"
              THEN /\ inst' = [inst EXCEPT ![i] = Loaded(cls, TheRow(res.rows))]
                   /\ ret' = Result("load", i, "ok", res.rows, record_id, res.sql)
              ELSE /\ ret' = Result("load", 0, res.outcome, {}, <<>>, res.sql)
                   /\ UNCHANGED inst
     /\ UNCHANGED <<db, committed, seq, clock>>

\* The last reference to an object is dropped.
Discard(i) ==
  /\ UNCHANGED <<pool, race, scraper>>
  /\ /\ inst[i].live
     /\ inst' = [inst EXCEPT ![i] = NoObject]
     /\ ret' = Result("del", 0, "ok", {}, <<>>, <<>>)
     /\ UNCHANGED <<db, committed, seq, clock>>

\* A direct call of Database.insert_record.
Insert(table, columns, values) ==
  /\ UNCHANGED <<pool, race, scraper>>
  /\ /\ seq[table] <= MaxId
     /\ LET res == insert_record(db[table], seq, table, columns, values)
        IN  /\ db' = [db EXCEPT ![table] = @ \cup res.rows]
            /\ seq' = IF res.outcome = "ok" THEN SeqAfterInsert(seq, table, columns, values) ELSE seq
            /\ ret' = Result("insert", 0, res.outcome, res.rows, <<>>, res.sql)
     /\ UNCHANGED <<committed, clock, inst>>

\* obj.col = v on a field of a live object.
SetAttr(i, col, v) ==
  /\ UNCHANGED <<pool, race, scraper>>
  /\ /\ inst[i].live
     /\ col \in FieldColumns(inst[i].cls)
     /\ Attr(inst[i], col) # v
     /\ inst' = [inst EXCEPT ![i].attrs[col] = v]
     /\ ret' = Result("setattr", i, "ok", {}, <<>>, <<>>)
     /\ UNCHANGED <<db, committed, seq, clock>>

\* ------------------------------------------------------------ all()
\* The object cls(**r) builds from a row: every column of the row is passed as a
\* keyword, so created_at and updated_at are the row's (the value of now() that
\* kwargs.pop evaluates is dropped), and __init__ sets _is_dumped = False.
FromKwargs(cls, r) ==
  [live |-> TRUE, cls |-> cls, attrs |-> [col \in DOMAIN r |-> r[col]], is_dumped |-> FALSE]

\* Mutant: all() building its objects the way from_id_in_database does.
all_AsLoaded(rows, cls) ==
  LET table == table_name(cls)
      sent == <<Stmt("SELECT", table, {})>>
  IN  IF rows # {} /\ ~(StoreColumns(table) \subseteq ColumnSet(cls))
        THEN [outcome |-> "ValueError_UnknownColumn", objs |-> {}, sql |-> sent]
      ELSE [outcome |-> "ok", objs |-> {Loaded(cls, r) : r \in rows}, sql |-> sent]

\* cls.all(): select_records(table) with no predicate, then cls(**r) per row.
all(rows, cls) ==
  LET table == table_name(cls)
      sent == <<Stmt("SELECT", table, {})>>
  IN  IF rows # {} /\ ~(StoreColumns(table) \subseteq ColumnSet(cls))
        THEN [outcome |-> "ValueError_UnknownColumn", objs |-> {}, sql |-> sent]
      ELSE [outcome |-> "ok", objs |-> {FromKwargs(cls, r) : r \in rows}, sql |-> sent]

\* A caller reads cls.all(); the objects it returns are the result's rows.
All(cls) ==
  /\ UNCHANGED <<pool, race, scraper>>
  /\ /\ LET res == all(db[table_name(cls)], cls)
        IN  ret' = Result("all", 0, res.outcome, res.objs, <<>>, res.sql)
     /\ UNCHANGED <<db, committed, seq, clock, inst>>

\* ---------------------------------------------------------- specifications
DbTable == "sites_testing"
DbFields == <<"name", "base_url">>

\* Arguments the callers of the model pass.
OptColumns(table) == {None, Some(<<>>)} \cup {Some(<<c>>) : c \in ({CatalogKey(table)[1]} \cup Range(DbFields))}
OptOperators == {None, Some(<<>>), Some(<<"=">>), Some(<<">">>)}
OptValues == {None, Some(<<>>)} \cup {Some(<<v>>) : v \in 1..MaxVal}
CondVals == 0..MaxVal
UpdateArgs == {Star, Listed(<<"name">>), Listed(<<"created_at">>), Listed(<<"nope">>)}
RecordIds == {<<>>} \cup {<<v>> : v \in 1..MaxId} \cup {<<v, v>> : v \in 1..MaxId}
CondColumns(table) == StoreColumns(table) \ ignored_columns_in_dict_record

\* The record lifecycle layer: objects are constructed, dumped, updated and loaded
\* while other code on the connection deletes rows, commits and rolls back.
Next ==
  \/ \E i \in InstIds, cls \in InstClasses :
       \E fields \in [FieldColumns(cls) -> Vals] : Construct(i, cls, fields)
  \/ \E i \in InstIds, force \in BOOLEAN : Dump(i, force)
  \/ \E i \in InstIds : RecordExists(i)
  \/ \E i \in InstIds : Discard(i)
  \/ \E i \in InstIds, columns \in UpdateArgs : Update(i, columns)
  \/ \E i \in InstIds, cls \in Classes, record_id \in RecordIds : Load(i, cls, record_id)
  \/ \E cls \in Classes : All(cls)
  \/ \E table \in SerialTables, v \in 1..MaxId :
       DeleteRecords(table, Some(<<CatalogKey(table)[1]>>), Some(<<"=">>), Some(<<v>>))
  \/ Commit
  \/ Rollback

Spec == Init /\ [][Next]_vars

\* The statement builder/executor called directly on one table.
NextDb ==
  \/ \E values \in [1..Len(DbFields) -> Vals] : Insert(DbTable, DbFields, values)
  \/ \E table \in Tables :
       \E wc \in OptColumns(table), wo \in OptOperators, wv \in OptValues :
         DeleteRecords(table, wc, wo, wv)
  \/ \E cols \in SUBSET Range(DbFields) :
       \E conditions \in [cols -> CondVals] : SelectUnique(DbTable, conditions)
  \/ Commit
  \/ Rollback

SpecDb == Init /\ [][NextDb]_vars

\* Patches in the two calling styles of update_record_by_id.
PatchDicts ==
  {None} \cup {Some(d) : d \in UNION {[cols -> 1..MaxVal] : cols \in SUBSET {"name", "_internal_col"}}}
PatchColumns == {None, Some(<<>>), Some(<<"name">>), Some(<<"_internal_col">>), Some(<<"name", "base_url">>)}
PatchValues == {None, Some(<<>>)} \cup {Some(<<v>>) : v \in 1..MaxVal}

\* Rows of one table read and updated by primary key.
NextById ==
  \/ \E values \in [1..Len(DbFields) -> Vals] : Insert(DbTable, DbFields, values)
  \/ \E v \in 1..MaxId : SelectById(DbTable, ScalarId(v))
  \/ \E v \in 1..MaxId, d \in PatchDicts, c \in PatchColumns, nv \in PatchValues :
       UpdateById(DbTable, ScalarId(v), d, c, nv)

SpecById == Init /\ [][NextById]_vars

\* Column and value lists callers pass to insert_record and update_records,
\* of equal and of different lengths.
ColumnLists == {<<"name">>, <<"name", "base_url">>}
ValueLists == UNION {[1..n -> Vals] : n \in 1..2}
SetLists == {<<"name">>}
SetValues == {<<>>} \cup {<<v>> : v \in 1..MaxVal}

\* The statement builder called with well-shaped and ill-shaped argument lists.
NextShape ==
  \/ \E columns \in ColumnLists, values \in ValueLists : Insert(DbTable, columns, values)
  \/ \E wc \in OptColumns(DbTable), wo \in OptOperators, wv \in OptValues :
       SelectRecords(DbTable, wc, wo, wv)
  \/ \E columns \in SetLists, values \in SetValues :
       \E wc \in OptColumns(DbTable), wo \in OptOperators, wv \in OptValues :
         UpdateRecords(DbTable, columns, values, wc, wo, wv)

SpecShape == Init /\ [][NextShape]_vars

\* The table with a two-column key, and tables the resolver is asked about: one
\* of them is a table the schema gives no primary key.
JointTable == "joint_table1_table2"
JointColumns == <<"t1_id", "t2_id">>
JointKeys == {<<a, b>> : a, b \in 1..MaxId}
ResolverTables == Tables \cup {"table_without_key"}

\* Rows of the two-column-key table inserted, then read and updated by key.
NextJoint ==
  \/ \E k \in JointKeys : Insert(JointTable, JointColumns, k)
  \/ \E k \in JointKeys : SelectById(JointTable, ListId(k))
  \/ \E k \in JointKeys, nk \in JointKeys :
       UpdateById(JointTable, ListId(k), None, Some(JointColumns), Some(nk))
  \/ \E table \in ResolverTables : GetPrimaryKey(table)

SpecJoint == Init /\ [][NextJoint]_vars

\* Objects constructed, dumped, changed in memory and written back with update(),
\* beside rows other code inserts.
NextRefresh ==
  \/ \E i \in InstIds, cls \in InstClasses :
       \E fields \in [FieldColumns(cls) -> Vals] : Construct(i, cls, fields)
  \/ \E i \in InstIds, force \in BOOLEAN : Dump(i, force)
  \/ \E i \in InstIds, cls \in InstClasses :
       \E col \in FieldColumns(cls), v \in Vals : SetAttr(i, col, v)
  \/ \E i \in InstIds, columns \in UpdateArgs : Update(i, columns)
  \/ \E values \in [1..Len(DbFields) -> Vals] : Insert(DbTable, DbFields, values)

SpecRefresh == Init /\ [][NextRefresh]_vars

\* ------------------------------------------------- declaring an entity type
\* A class attribute as a subclass body leaves it: a list (or tuple) of items,
\* or a str.  The base class gives table_columns = [] and table_id = [].
ListAttr(items) == [kind |-> "list", items |-> items]
StrAttr(text) == [kind |-> "str", items |-> <<text>>]

\* An item of table_columns that is not a str (the 123 of the tests).
NotAString == "123"
IsStr(item) == item # NotAString
\* col.startswith("_")
StartsPrivate(item) == item \in {"_secret", "_internal_col"}
\* Python truth of the attribute: [] and '' are false.
AttrTruthy(a) == IF a.kind = "list" THEN Len(a.items) > 0 ELSE a.items[1] # ""

\* BaseORMModel.__init_subclass__: "ok" when the class statement completes,
\* else the exception raised by the first check that fails.
init_subclass(table_columns_, table_id_) ==
  LET cols == table_columns_.items
      bad == {k \in 1..Len(cols) : ~IsStr(cols[k]) \/ StartsPrivate(cols[k])}
      first == CHOOSE k \in bad : \A j \in bad : k <= j
  IN  IF ~AttrTruthy(table_columns_) THEN "TypeError"
      ELSE IF table_columns_.kind # "list" THEN "TypeError"
      ELSE IF bad # {} THEN (IF ~IsStr(cols[first]) THEN "TypeError" ELSE "ValueError")
      ELSE IF table_id_.kind # "list" THEN "TypeError"
      ELSE IF \E k \in 1..Len(table_id_.items) : table_id_.items[k] \notin Range(cols)
        THEN "ValueError"
      ELSE "ok"

\* A class statement  class X(BaseORMModel): table_columns = ...; table_id = ...
Declare(table_columns_, table_id_) ==
  /\ UNCHANGED <<pool, race, scraper>>
  /\ /\ ret' = Result("declare", 0, init_subclass(table_columns_, table_id_),
                      {[table_columns |-> table_columns_, table_id |-> table_id_]}, <<>>, <<>>)
     /\ UNCHANGED <<db, committed, seq, clock, inst>>

\* Declarations: lists of up to MaxDecl items, and attributes that are no list.
MaxDecl == 2
ItemLists(items) == UNION {[1..n -> items] : n \in 0..MaxDecl}
DeclColumns ==
  {ListAttr(l) : l \in ItemLists({"user_id", "name", "_secret", NotAString})}
    \cup {StrAttr(""), StrAttr("user_id,name")}
DeclKeys ==
  {ListAttr(l) : l \in ItemLists({"user_id", "name", "age"})} \cup {StrAttr("user_id")}

NextDecl == \E tc \in DeclColumns, ti \in DeclKeys : Declare(tc, ti)

SpecDecl == Init /\ [][NextDecl]_vars

\* ------------------------------------------------------------- properties
\* Arguments that carry no predicate: each list absent (None) or empty.
NoPredicate(wc, wo, wv) == ~Truthy(wc) /\ ~Truthy(wo) /\ ~Truthy(wv)

\* C1: delete_records called with no predicate (every where list None or empty)
\* ends with the "DELETE without WHERE" ValueError on every table, sends no
\* statement and leaves the rows as they were; and every DELETE statement any
\* call sends carries at least one WHERE condition.
C1_DeleteNeedsPredicate ==
  [][/\ \A table \in Tables :
          \A wc \in {None, Some(<<>>)}, wo \in {None, Some(<<>>)}, wv \in {None, Some(<<>>)} :
            (NoPredicate(wc, wo, wv) /\ DeleteRecords(table, wc, wo, wv)) =>
              /\ ret'.outcome = "ValueError_UnsafeDelete"
              /\ ret'.sql = <<>>
              /\ db' = db
     /\ ret'.op = "delete" =>
          /\ \A k \in 1..Len(ret'.sql) :
               ret'.sql[k].verb = "DELETE" => ret'.sql[k].where # {}
          /\ ret'.outcome # "ok" => db' = db]_vars

\* C1 witness: a delete without predicate was rejected while the table held rows.
C1_Witness ==
  /\ ret.op = "delete"
  /\ ret.outcome = "ValueError_UnsafeDelete"
  /\ db[DbTable] # {}

\* Rows equal to the conditions on every named column, as the store compares.
C4_Satisfying(rows, conditions) ==
  {r \in rows : \A col \in DOMAIN conditions :
     r[col] # NULL /\ conditions[col] # NULL /\ r[col] = conditions[col]}

\* C4: select_unique_record with at least one condition returns None when no row
\* satisfies all the equality conditions, exactly the row when one does, raises
\* the "Expected exactly one record" ValueError when several do, and never
\* changes the stored rows.
C4_SelectUnique ==
  [][\A cols \in SUBSET Range(DbFields) :
       \A conditions \in [cols -> CondVals] :
         (SelectUnique(DbTable, conditions) /\ cols # {}) =>
           LET hit == C4_Satisfying(db[DbTable], conditions)
           IN  /\ Cardinality(hit) = 0 => ret'.outcome = "ok" /\ ret'.rows = {}
               /\ Cardinality(hit) = 1 => ret'.outcome = "ok" /\ ret'.rows = hit
               /\ Cardinality(hit) > 1 =>
                    ret'.outcome = "ValueError_Ambiguous" /\ ret'.rows = {}
               /\ db' = db /\ committed' = committed]_vars

\* C4 witness: a unique lookup met two matching rows and raised.
C4_Witness ==
  /\ ret.op = "select_unique"
  /\ ret.outcome = "ValueError_Ambiguous"
  /\ \E r1, r2 \in db[DbTable] : r1 # r2 /\ r1["name"] = r2["name"]

\* A stored row equals an object on every column that is neither a key column
\* nor created_at/updated_at (None equal to NULL).
ValueEqual(o, r) == \A col \in FieldColumns(o.cls) : r[col] = Attr(o, col)
EqualRows(rows, o) == {r \in rows : ValueEqual(o, r)}
HasNullField(o) == \E col \in FieldColumns(o.cls) : Attr(o, col) = NULL

\* C2: dump() with force = False on an object that has no value-equal row adds
\* one and returns its key; on an object that has exactly one value-equal row
\* (the second call, on the same or a value-equal object) it returns that row's
\* key and adds nothing.
C2_DumpIdempotent ==
  [][\A i \in InstIds :
       (inst[i].live /\ Dump(i, FALSE)) =>
         LET o == inst[i]
             table == table_name(o.cls)
             before == EqualRows(db[table], o)
             after == EqualRows(db'[table], o)
         IN  /\ before = {} =>
                  Cardinality(after) = 1 /\ \A r \in after : ret'.key = KeyOf(o.cls, r)
             /\ Cardinality(before) = 1 =>
                  db' = db /\ \A r \in before : ret'.key = KeyOf(o.cls, r)]_vars

\* C3: dump(force = True) never takes the duplicate path: it inserts one more
\* value-equal row, whose key differs from the key of every row stored before.
C3_ForceInserts ==
  [][\A i \in InstIds :
       (inst[i].live /\ Dump(i, TRUE)) =>
         LET o == inst[i]
             table == table_name(o.cls)
         IN  /\ ret'.outcome \in {"inserted", "StoreError"}
             /\ ret'.outcome = "inserted" =>
                  /\ Cardinality(db'[table]) = Cardinality(db[table]) + 1
                  /\ Cardinality(EqualRows(db'[table], o)) =
                       Cardinality(EqualRows(db[table], o)) + 1
                  /\ \A r \in db[table] : KeyOf(o.cls, r) # ret'.key]_vars

\* C3 witness: a forced dump (no lookup sent) left two value-equal rows with
\* distinct keys.
C3_Witness ==
  /\ ret.op = "dump"
  /\ ret.outcome = "inserted"
  /\ Len(ret.sql) = 1
  /\ \E r1, r2 \in db["sites_testing"] :
       /\ r1["site_id"] # r2["site_id"]
       /\ ValueEqual(inst[ret.who], r1)
       /\ ValueEqual(inst[ret.who], r2)

\* C5: dump() with force = False on an object (here: one without a null field)
\* for which at least one value-equal row is stored returns the key of such a
\* row and does not raise.
C5_DuplicateNeverRaises ==
  [][\A i \in InstIds :
       (inst[i].live /\ ~HasNullField(inst[i]) /\ Dump(i, FALSE)
          /\ EqualRows(db[table_name(inst[i].cls)], inst[i]) # {}) =>
         /\ ret'.outcome = "duplicate"
         /\ \E r \in EqualRows(db[table_name(inst[i].cls)], inst[i]) :
              ret'.key = KeyOf(inst[i].cls, r)]_vars

\* C6: record_exists is True iff a stored row equals the object on every column
\* other than the key and created_at/updated_at, null fields included.
C6_ExistsIffValueEqualRow ==
  [][\A i \in InstIds :
       (inst[i].live /\ RecordExists(i)) =>
         /\ ret'.outcome \in {"True", "False"}
         /\ ret'.outcome = "True" <=>
              EqualRows(db[table_name(inst[i].cls)], inst[i]) # {}]_vars

\* C7: a dump() that inserts adds exactly one row, sets the is_dumped flag,
\* copies the returned row's key columns onto the object and returns them as a
\* list in the order of table_id; the row carries the object's fields and
\* created_at.
C7_InsertPath ==
  [][\A i \in InstIds, force \in BOOLEAN :
       (inst[i].live /\ Dump(i, force) /\ ret'.outcome = "inserted") =>
         LET o == inst[i]
             table == table_name(o.cls)
         IN  \E row \in db'[table] :
               /\ row \notin db[table]
               /\ db'[table] = db[table] \cup {row}
               /\ \A t \in Tables \ {table} : db'[t] = db[t]
               /\ ValueEqual(o, row)
               /\ row["created_at"] = Attr(o, "created_at")
               /\ inst'[i].is_dumped
               /\ \A k \in 1..Len(table_id(o.cls)) :
                    /\ inst'[i].attrs[table_id(o.cls)[k]] = row[table_id(o.cls)[k]]
                    /\ ret'.key[k] = row[table_id(o.cls)[k]]
               /\ Len(ret'.key) = Len(table_id(o.cls))]_vars

\* C7 witness: a dump inserted a row and the object carries its key.
C7_Witness ==
  /\ ret.op = "dump"
  /\ ret.outcome = "inserted"
  /\ inst[ret.who].is_dumped
  /\ pk(inst[ret.who]) = ret.key
  /\ \E r \in db["sites_testing"] : <<r["site_id"]>> = ret.key

\* C8: a constructed object starts with is_dumped false; the flag turns true
\* only by a dump() of that object that inserts; a dump() that returns through
\* the duplicate path leaves it as it was; and once true it stays true through
\* every dump, update, rollback, commit and deletion of the row.
C8_FlagLifecycle ==
  [][\A i \in InstIds :
       /\ (ret'.op = "init" /\ ret'.who = i) => ~inst'[i].is_dumped
       /\ (inst[i].live /\ ~inst[i].is_dumped /\ inst'[i].is_dumped) =>
            (ret'.op = "dump" /\ ret'.who = i /\ ret'.outcome = "inserted")
       /\ (ret'.op = "dump" /\ ret'.who = i /\ ret'.outcome = "duplicate") =>
            inst'[i].is_dumped = inst[i].is_dumped
       /\ (inst[i].is_dumped /\ inst'[i].live) => inst'[i].is_dumped]_vars

\* C8 witness: an object is flagged as dumped although no stored row has its key
\* (the row was deleted or rolled back), after a later call on it.
C8_Witness ==
  \E i \in InstIds :
    /\ inst[i].live
    /\ inst[i].is_dumped
    /\ ret.who = i
    /\ ret.op \in {"dump", "update"}
    /\ ret.outcome # "inserted"
    /\ \A r \in db[table_name(inst[i].cls)] : KeyOf(inst[i].cls, r) # pk(inst[i])

\* The state is the one a dump() of object x has just returned key k in, and the
\* step loads k into slot i.
C9_LoadsDumpedKey(i) ==
  /\ ret.op = "dump"
  /\ ret.outcome \in {"inserted", "duplicate"}
  /\ inst[ret.who].live
  /\ Len(table_id(inst[ret.who].cls)) = 1
  /\ Load(i, inst[ret.who].cls, ret.key)

\* What the round trip yields in every case: an object of x's type, flagged as
\* dumped, equal to the stored row on every declared column and to x on the
\* non-key fields.
C9_LoadedMatches(i) ==
  LET x == inst[ret.who]
      y == inst'[i]
  IN  /\ ret'.outcome = "ok"
      /\ y.live
      /\ y.cls = x.cls
      /\ y.is_dumped
      /\ \E row \in db[table_name(x.cls)] :
           /\ KeyOf(x.cls, row) = ret.key
           /\ \A col \in ColumnSet(x.cls) : y.attrs[col] = row[col]
      /\ \A col \in FieldColumns(x.cls) : y.attrs[col] = Attr(x, col)

\* C9 as claimed: after dump() on x returns k, from_id_in_database(k) returns an
\* object of the same type, equal to the stored row on every declared column,
\* flagged as dumped, whose non-key fields and created_at equal those of x.
C9_RoundTripAsClaimed ==
  [][\A i \in InstIds :
       C9_LoadsDumpedKey(i) =>
         /\ C9_LoadedMatches(i)
         /\ inst'[i].attrs["created_at"] = Attr(inst[ret.who], "created_at")]_vars

\* C9 amended: the same, with created_at equal to that of x when dump() inserted
\* the row; after a dump() that returned through the duplicate path created_at is
\* that of the row already stored.
C9_RoundTrip ==
  [][\A i \in InstIds :
       C9_LoadsDumpedKey(i) =>
         /\ C9_LoadedMatches(i)
         /\ ret.outcome = "inserted" =>
              inst'[i].attrs["created_at"] = Attr(inst[ret.who], "created_at")]_vars

\* C9 witness: a load returned an object for the key another live object holds
\* from its dump through the duplicate path, and the two differ in created_at.
C9_Witness ==
  /\ ret.op = "load"
  /\ ret.outcome = "ok"
  /\ \E j \in InstIds :
       /\ j # ret.who
       /\ inst[j].live
       /\ ~inst[j].is_dumped
       /\ pk(inst[j]) = ret.key
       /\ Attr(inst[j], "created_at") # inst[ret.who].attrs["created_at"]
       /\ \A col \in FieldColumns(inst[j].cls) :
            inst[ret.who].attrs[col] = Attr(inst[j], col)

C12_Patch(d, c, nv) ==
  LET form == PatchOf(d, c, nv)
  IN  [col \in {x \in DOMAIN form.patch : ~IsPrivate(x)} |-> form.patch[col]]

\* C12: update_record_by_id raises "not found" when no row has the key, raises
\* "no valid columns" when the row exists and the well-formed patch holds only
\* private columns (or nothing); neither changes a stored row.  When it succeeds
\* the row with that key, and no other, carries the public patch columns and is
\* the row returned.
C12_UpdateById ==
  [][\A v \in 1..MaxId, d \in PatchDicts, c \in PatchColumns, nv \in PatchValues :
       UpdateById(DbTable, ScalarId(v), d, c, nv) =>
         LET rows == db[DbTable]
             hit == {r \in rows : r["site_id"] = v}
             wellFormed == PatchOf(d, c, nv).outcome = "ok"
             patch == C12_Patch(d, c, nv)
         IN  /\ hit = {} => ret'.outcome = "ValueError_NotFound" /\ db' = db
             /\ (hit # {} /\ wellFormed /\ DOMAIN patch = {}) =>
                  ret'.outcome = "ValueError_NoUpdatable" /\ db' = db
             /\ ret'.outcome = "ok" =>
                  /\ Cardinality(ret'.rows) = 1
                  /\ \A new \in ret'.rows :
                       /\ new["site_id"] = v
                       /\ new \in db'[DbTable]
                       /\ db'[DbTable] \ {new} = rows \ hit
                       /\ \A old \in hit : \A col \in DOMAIN old :
                            new[col] = IF col \in DOMAIN patch THEN patch[col] ELSE old[col]
             /\ ret'.outcome # "ok" => db' = db]_vars

\* C12 witness: a patch holding a public and a private column updated one of two
\* stored rows and left the other as it was.
C12_Witness ==
  /\ ret.op = "update_by_id"
  /\ ret.outcome = "ok"
  /\ Cardinality(db[DbTable]) = 2
  /\ \E new \in ret.rows, other \in db[DbTable] :
       /\ new \in db[DbTable]
       /\ other # new
       /\ new["name"] # NULL
       /\ other["name"] = NULL

\* C13: a call of update_record_by_id that passes both patch forms, neither, or
\* column and value lists of different lengths raises a validation error, and
\* raises it before any statement is sent, whether or not the row exists.
C13_ValidationFirst ==
  [][\A v \in 1..MaxId, d \in PatchDicts, c \in PatchColumns, nv \in PatchValues :
       (UpdateById(DbTable, ScalarId(v), d, c, nv) /\ PatchOf(d, c, nv).outcome # "ok") =>
         /\ ret'.outcome = PatchOf(d, c, nv).outcome
         /\ ret'.sql = <<>>]_vars


\* C14: insert_record called with column and value lists of different lengths
\* is rejected with a validation error, sends no statement and stores no row.
C14_InsertLengths ==
  [][\A columns \in ColumnLists, values \in ValueLists :
       (Insert(DbTable, columns, values) /\ Len(columns) # Len(values)) =>
         /\ ret'.outcome = "ValueError_Length"
         /\ ret'.sql = <<>>
         /\ db' = db]_vars

\* Length of an optional list; an absent list has none.
C15_Len(x) == IF x.given THEN Len(x.val) ELSE 0

\* Some predicate list is supplied and the three are not of one length.
C15_Mismatch(wc, wo, wv) ==
  /\ Truthy(wc) \/ Truthy(wo) \/ Truthy(wv)
  /\ ~(C15_Len(wc) = C15_Len(wo) /\ C15_Len(wo) = C15_Len(wv))

\* C15: select_records and update_records called with predicate lists that are
\* not all of one length, an absent or empty where_columns beside non-empty
\* operators or values included, raise the ValueError of the shape check and
\* send no statement.
C15_PredicateShape ==
  [][\A wc \in OptColumns(DbTable), wo \in OptOperators, wv \in OptValues :
       C15_Mismatch(wc, wo, wv) =>
         /\ SelectRecords(DbTable, wc, wo, wv) =>
              ret'.outcome = "ValueError_Shape" /\ ret'.sql = <<>>
         /\ \A columns \in SetLists, values \in SetValues :
              (Len(columns) = Len(values) /\ UpdateRecords(DbTable, columns, values, wc, wo, wv)) =>
                ret'.outcome = "ValueError_Shape" /\ ret'.sql = <<>> /\ db' = db]_vars


\* The stored row of the two-column-key table with the given key values.
C16_RowAt(rows, k) == {r \in rows : r["t1_id"] = k[1] /\ r["t2_id"] = k[2]}

\* C16: on the table with a two-column key, select_record_by_id called with the
\* two key values of a stored row returns that row, and update_record_by_id
\* called with them updates that row.
C16_CompositeRoundTrip ==
  [][\A k \in JointKeys :
       C16_RowAt(db[JointTable], k) # {} =>
         /\ SelectById(JointTable, ListId(k)) =>
              ret'.outcome = "ok" /\ ret'.rows = C16_RowAt(db[JointTable], k)
         /\ \A nk \in JointKeys :
              (UpdateById(JointTable, ListId(k), None, Some(JointColumns), Some(nk))
                 /\ (nk = k \/ C16_RowAt(db[JointTable], nk) = {})) =>
                /\ ret'.outcome = "ok"
                /\ C16_RowAt(db'[JointTable], nk) # {}
                /\ ret'.rows = C16_RowAt(db'[JointTable], nk)]_vars

\* C17: get_primary_key_column raises ValueError for a table without a primary
\* key, returns the column name as a str for a single-column key, and for a
\* composite key returns the list of its columns in the order of the key's
\* declaration.
C17_Resolver ==
  [][\A table \in ResolverTables :
       GetPrimaryKey(table) =>
         LET key == CatalogKey(table)
         IN  /\ Len(key) = 0 => ret'.outcome = "ValueError_NoPrimaryKey"
             /\ Len(key) = 1 => ret'.outcome = "str" /\ ret'.key = key
             /\ Len(key) > 1 => ret'.outcome = "list" /\ ret'.key = key]_vars


\* The schema invariant: table_columns a non-empty list of unique strings, none
\* private; table_id a non-empty list of members of table_columns.
C18_Valid(tc, ti) ==
  /\ tc.kind = "list"
  /\ Len(tc.items) > 0
  /\ \A k \in 1..Len(tc.items) : IsStr(tc.items[k]) /\ ~StartsPrivate(tc.items[k])
  /\ Cardinality(Range(tc.items)) = Len(tc.items)
  /\ ti.kind = "list"
  /\ Len(ti.items) > 0
  /\ \A k \in 1..Len(ti.items) : ti.items[k] \in Range(tc.items)

\* C18: a class statement completes exactly when the declaration satisfies the
\* schema invariant; every other declaration raises at class-definition time.
C18_DeclarationInvariant ==
  [][\A tc \in DeclColumns, ti \in DeclKeys :
       Declare(tc, ti) => (ret'.outcome = "ok" <=> C18_Valid(tc, ti))]_vars


\* Rows of an object's table stored under the object's key.
C19_Own(rows, o) == {r \in rows : KeyOf(o.cls, r) = pk(o)}

\* Columns a call of update() writes from the object: all fields for '*', the
\* listed ones otherwise.
C19_Written(o, columns) ==
  IF columns.star THEN FieldColumns(o.cls) ELSE Range(columns.list) \cap FieldColumns(o.cls)

\* C19: update() changes no row but the one stored under the object's key and no
\* other table.  When it returns, that row has its key and created_at as before,
\* the written fields carry the object's values (all fields for '*'), every
\* other field is as stored, updated_at is not null and is the object's
\* updated_at.  update('*') on a dumped object whose row is stored returns.
C19_UpdateFrame ==
  [][\A i \in InstIds, columns \in UpdateArgs :
       (inst[i].live /\ Update(i, columns)) =>
         LET o == inst[i]
             table == table_name(o.cls)
             own == C19_Own(db[table], o)
         IN  /\ \A t \in Tables \ {table} : db'[t] = db[t]
             /\ db[table] \ own = db'[table] \ C19_Own(db'[table], o)
             /\ Cardinality(db'[table]) = Cardinality(db[table])
             /\ (columns.star /\ o.is_dumped /\ own # {}) => ret'.outcome = "ok"
             /\ ret'.outcome = "ok" =>
                  /\ own # {}
                  /\ \A old \in own : \E new \in db'[table] :
                       /\ KeyOf(o.cls, new) = KeyOf(o.cls, old)
                       /\ new["created_at"] = old["created_at"]
                       /\ new["updated_at"] # NULL
                       /\ inst'[i].attrs["updated_at"] = new["updated_at"]
                       /\ \A col \in FieldColumns(o.cls) :
                            new[col] = IF col \in C19_Written(o, columns)
                                         THEN Attr(o, col) ELSE old[col]]_vars

\* C19 witness: update() returned for an object whose field was changed in
\* memory after its dump; the stored row carries the new value and a non-null
\* updated_at, and a second row is stored with updated_at still null.
C19_Witness ==
  /\ ret.op = "update"
  /\ ret.outcome = "ok"
  /\ \E new \in ret.rows, other \in db[DbTable] :
       /\ new \in db[DbTable]
       /\ new["updated_at"] # NULL
       /\ new["name"] # other["name"]
       /\ other["site_id"] # new["site_id"]
       /\ other["updated_at"] = NULL
       /\ inst[ret.who].attrs["name"] = new["name"]

\* C20: update() on an object whose primary key is unset raises, changes no
\* stored row and leaves the object's updated_at as it was.
C20_UpdateUnsetKey ==
  [][\A i \in InstIds, columns \in UpdateArgs :
       (inst[i].live /\ pk(inst[i]) = <<NULL>> /\ Update(i, columns)) =>
         /\ ret'.outcome # "ok"
         /\ db' = db
         /\ inst'[i].attrs["updated_at"] = inst[i].attrs["updated_at"]]_vars

\* C20 witness: update() raised "not found" for an object that was never dumped
\* while a row was stored.
C20_Witness ==
  /\ ret.op = "update"
  /\ ret.outcome = "ValueError_NotFound"
  /\ pk(inst[ret.who]) = <<NULL>>
  /\ ~inst[ret.who].is_dumped
  /\ db[DbTable] # {}

\* ------------------------------------------------ connection manager
MaxDb == 3        \* Database objects constructed

\* Connection parameters: accepted by the server, or refused (psycopg2.connect raises).
ConnectArgs == {"accepted", "refused"}

\* _init_connection(dbname, user, password, host, port) on object k: connect and
\* keep the connection, or raise and leave the object without _connection.
init_connection(p, k, args) ==
  IF args = "accepted"
    THEN [p EXCEPT !.objs[k] = [conn |-> p.opened + 1, closed |-> FALSE],
                   !.opened = @ + 1]
    ELSE p

\* super().__new__(cls): a fresh object, no attribute set.
NewObject(p) == [p EXCEPT !.objs = Append(@, [conn |-> 0, closed |-> FALSE])]

\* Database(*args, _use_singleton=...): __new__.  In shared mode _instance is
\* assigned before _init_connection runs on it.
NewDatabase(use_singleton, args) ==
  /\ UNCHANGED <<db, committed, seq, clock, inst, race, scraper>>
  /\ LET k == Len(pool.objs) + 1
         outcome == IF args = "accepted" THEN "ok" ELSE "OperationalError"
     IN  IF ~use_singleton
           THEN /\ k <= MaxDb
                /\ pool' = IF args = "accepted"
                             THEN init_connection(NewObject(pool), k, args)
                             ELSE pool
                /\ ret' = Result("Database", IF args = "accepted" THEN k ELSE 0,
                                 outcome, {}, <<>>, <<>>)
         ELSE IF pool.instance = 0
           THEN /\ k <= MaxDb
                /\ pool' = init_connection([NewObject(pool) EXCEPT !.instance = k], k, args)
                /\ ret' = Result("Database", IF args = "accepted" THEN k ELSE 0,
                                 outcome, {}, <<>>, <<>>)
         ELSE /\ pool' = pool
              /\ ret' = Result("Database", pool.instance, "ok", {}, <<>>, <<>>)

\* Database.reset_instance(): close the shared connection if there is one and it
\* is open, then forget the instance.
ResetInstance ==
  /\ UNCHANGED <<db, committed, seq, clock, inst, race, scraper>>
  /\ pool' = IF pool.instance = 0 THEN pool
             ELSE [pool EXCEPT !.objs[pool.instance].closed =
                                  IF pool.objs[pool.instance].conn # 0 THEN TRUE ELSE @,
                               !.instance = 0]
  /\ ret' = Result("reset_instance", 0, "ok", {}, <<>>, <<>>)

\* close() on an object the caller holds: reads self._connection.
Close(k) ==
  /\ UNCHANGED <<db, committed, seq, clock, inst, race, scraper>>
  /\ k \in DOMAIN pool.objs
  /\ IF pool.objs[k].conn = 0
       THEN /\ ret' = Result("close", k, "AttributeError", {}, <<>>, <<>>)
            /\ UNCHANGED pool
       ELSE /\ pool' = [pool EXCEPT !.objs[k].closed = TRUE]
            /\ ret' = Result("close", k, "ok", {}, <<>>, <<>>)

NextPool ==
  \/ \E use_singleton \in BOOLEAN, args \in ConnectArgs : NewDatabase(use_singleton, args)
  \/ ResetInstance
  \/ \E k \in 1..MaxDb : Close(k)

SpecPool == Init /\ [][NextPool]_vars

\* C22: every shared construction that returns gives the shared instance, which
\* holds a connection: the existing one while an instance is set (nothing
\* opened, nothing changed), a newly opened one after a reset; every isolated
\* construction gives a new object with a connection of its own and leaves the
\* shared instance and every other object as they were.
C22_Sharing ==
  [][\A args \in ConnectArgs :
       /\ (NewDatabase(TRUE, args) /\ ret'.outcome = "ok") =>
            /\ ret'.who = pool'.instance
            /\ pool'.objs[ret'.who].conn # 0
            /\ pool.instance # 0 => (ret'.who = pool.instance /\ pool' = pool)
            /\ pool.instance = 0 => pool'.objs[ret'.who].conn = pool.opened + 1
       /\ (NewDatabase(FALSE, args) /\ ret'.outcome = "ok") =>
            /\ ret'.who = Len(pool.objs) + 1
            /\ pool'.objs[ret'.who].conn = pool.opened + 1
            /\ pool'.instance = pool.instance
            /\ \A k \in DOMAIN pool.objs : pool'.objs[k] = pool.objs[k]]_vars

\* ------------------------------------------------ scraper
MaxRetries == 2   \* largest max_retries configured
MaxFetch == 3     \* fetch calls on one scraper

\* max_retries is an unchecked constructor argument: any int.
RetryCounts == -1..MaxRetries
\* retry_backoff: multipliers time.sleep accepts the products of.
Backoffs == {1, 2}

\* BaseScraper.__init__: the configuration is kept, the statistics start at 0.
NewScraper(max_retries, retry_backoff) ==
  /\ UNCHANGED <<db, committed, seq, clock, inst, ret, pool, race>>
  /\ scraper.pc = "none"
  /\ scraper' = [NoScraper EXCEPT !.pc = "idle", !.max_retries = max_retries,
                                  !.retry_backoff = retry_backoff]

\* fetch(url), up to the loop: _delay(), requests_total += 1,
\* retries_left = max_retries, delay_backoff = 1.  attempts and fails count the
\* _fetch invocations of this call and those that raised.
FetchCall ==
  /\ UNCHANGED <<db, committed, seq, clock, inst, ret, pool, race>>
  /\ scraper.pc \in {"idle", "returned", "raised"}
  /\ scraper.requests_total < MaxFetch
  /\ scraper' = [scraper EXCEPT !.pc = "loop", !.requests_total = @ + 1,
                                !.retries_left = scraper.max_retries,
                                !.delay_backoff = 1, !.attempts = 0, !.fails = 0,
                                !.response = 0]

\* Mutant: gives up while one retry is left.
fetch_step_OneShort(s, ok) ==
  IF ok
    THEN [s EXCEPT !.attempts = @ + 1, !.requests_success = @ + 1,
                   !.pc = "returned", !.response = s.attempts + 1]
  ELSE IF s.retries_left <= 1
    THEN [s EXCEPT !.attempts = @ + 1, !.fails = @ + 1, !.requests_failed = @ + 1,
                   !.pc = "raised"]
  ELSE [s EXCEPT !.attempts = @ + 1, !.fails = @ + 1,
                 !.delay_backoff = @ * s.retry_backoff, !.retries_left = @ - 1]

\* One pass of the loop body: _fetch returns (ok) or raises.  The response of
\* the k-th invocation of _fetch is written k.
fetch_step(s, ok) ==
  IF ok
    THEN [s EXCEPT !.attempts = @ + 1, !.requests_success = @ + 1,
                   !.pc = "returned", !.response = s.attempts + 1]
  ELSE IF s.retries_left = 0
    THEN [s EXCEPT !.attempts = @ + 1, !.fails = @ + 1, !.requests_failed = @ + 1,
                   !.pc = "raised"]
  ELSE [s EXCEPT !.attempts = @ + 1, !.fails = @ + 1,
                 !.delay_backoff = @ * s.retry_backoff, !.retries_left = @ - 1]

\* while retries_left >= 0: one attempt.
FetchAttempt(ok) ==
  /\ UNCHANGED <<db, committed, seq, clock, inst, ret, pool, race>>
  /\ scraper.pc = "loop"
  /\ scraper.retries_left >= 0
  /\ scraper' = fetch_step(scraper, ok)

\* The loop condition is false: fetch falls off its end and returns None.
FetchFallsThrough ==
  /\ UNCHANGED <<db, committed, seq, clock, inst, ret, pool, race>>
  /\ scraper.pc = "loop"
  /\ scraper.retries_left < 0
  /\ scraper' = [scraper EXCEPT !.pc = "returned", !.response = 0]

NextScraper ==
  \/ \E n \in RetryCounts, b \in Backoffs : NewScraper(n, b)
  \/ FetchCall
  \/ \E ok \in BOOLEAN : FetchAttempt(ok)
  \/ FetchFallsThrough

SpecScraper == Init /\ [][NextScraper]_vars

\* A call of fetch that has started keeps running: _fetch returns or raises, and
\* time.sleep returns.
SpecScraperFair ==
  /\ Init
  /\ [][NextScraper]_vars
  /\ WF_vars(\E ok \in BOOLEAN : FetchAttempt(ok))
  /\ WF_vars(FetchFallsThrough)

C26_Shape ==
  scraper.max_retries >= 0 =>
    /\ scraper.attempts <= scraper.max_retries + 1
    /\ scraper.pc = "returned" =>
         /\ scraper.fails = scraper.attempts - 1
         /\ scraper.response = scraper.attempts
    /\ scraper.pc = "raised" <=> scraper.fails = scraper.max_retries + 1

C27_Statistics ==
  scraper.pc \in {"returned", "raised"} =>
    scraper.requests_total = scraper.requests_success + scraper.requests_failed

Operators == {"=", ">", "<", ">=", "<=", "<>", "!=", "LIKE", "ILIKE", "IN", "IS"}

\* where_operators as callers can pass them: any list of strings.
AnyOperators == {Some(<<"=">>), Some(<<">">>), Some(<<FreeText>>)}

\* select, update and delete called with well-shaped one-condition predicates.
NextOps ==
  \/ \E values \in [1..Len(DbFields) -> Vals] : Insert(DbTable, DbFields, values)
  \/ \E c \in Range(DbFields), wo \in AnyOperators, v \in 1..MaxVal :
       SelectRecords(DbTable, Some(<<c>>), wo, Some(<<v>>))
  \/ \E nv \in 1..MaxVal, c \in Range(DbFields), wo \in AnyOperators, v \in 1..MaxVal :
       UpdateRecords(DbTable, <<"name">>, <<nv>>, Some(<<c>>), wo, Some(<<v>>))
  \/ \E c \in Range(DbFields), wo \in AnyOperators, v \in 1..MaxVal :
       DeleteRecords(DbTable, Some(<<c>>), wo, Some(<<v>>))

SpecOps == Init /\ [][NextOps]_vars

\* C24: every operator in the WHERE clause of a statement that select, update
\* or delete sent is one of the fixed comparison operators.
C24_FixedOperators ==
  ret.op \in {"select", "update_records", "delete"} =>
    \A k \in DOMAIN ret.sql : \A cond \in ret.sql[k].where : cond[2] \in Operators

\* ------------------------------------------------ transactions
\* Mutant: insert_record commits whatever autocommit is.
committed_after_insert_Always(autocommit, rows_committed, rows_visible) == rows_visible

\* "if autocommit: self.commit()" after a successful INSERT: the committed rows
\* become the rows visible on the connection.
committed_after_insert(autocommit, rows_committed, rows_visible) ==
  IF autocommit THEN rows_visible ELSE rows_committed

\* insert_record(table, columns, values, autocommit=...).
InsertRecord(table, columns, values, autocommit) ==
  /\ UNCHANGED <<pool, race, scraper>>
  /\ seq[table] <= MaxId
  /\ LET res == insert_record(db[table], seq, table, columns, values)
         visible == [db EXCEPT ![table] = @ \cup res.rows]
     IN  /\ db' = visible
         /\ seq' = IF res.outcome = "ok" THEN SeqAfterInsert(seq, table, columns, values) ELSE seq
         /\ committed' = IF res.outcome = "ok"
                           THEN committed_after_insert(autocommit, committed, visible)
                           ELSE committed
         /\ ret' = Result("insert", 0, res.outcome, res.rows, <<>>, res.sql)
  /\ UNCHANGED <<clock, inst>>

\* Every operation of the layer on one connection, with commits and rollbacks.
NextTxn ==
  \/ \E i \in InstIds, cls \in InstClasses :
       \E fields \in [FieldColumns(cls) -> 1..MaxVal] : Construct(i, cls, fields)
  \/ \E i \in InstIds, force \in BOOLEAN : Dump(i, force)
  \/ \E i \in InstIds : Update(i, Star)
  \/ \E values \in [1..Len(DbFields) -> 1..MaxVal], autocommit \in BOOLEAN :
       InsertRecord(DbTable, DbFields, values, autocommit)
  \/ \E v \in 1..MaxId : SelectRecords(DbTable, Some(<<"site_id">>), Some(<<"=">>), Some(<<v>>))
  \/ \E nv \in 1..MaxVal + 1, v \in 1..MaxId :
       UpdateRecords(DbTable, <<"name">>, <<nv>>, Some(<<"site_id">>), Some(<<"=">>), Some(<<v>>))
  \/ \E v \in 1..MaxId : DeleteRecords(DbTable, Some(<<"site_id">>), Some(<<"=">>), Some(<<v>>))
  \/ Commit
  \/ Rollback

SpecTxn == Init /\ [][NextTxn]_vars

\* C25: the committed rows change only in commit() and in insert_record called
\* with autocommit=True, and rollback() makes the visible rows the committed rows.
C25_NoImplicitCommit ==
  [][/\ committed' # committed => ret'.op \in {"commit", "insert"}
     /\ \A values \in [1..Len(DbFields) -> 1..MaxVal] :
          InsertRecord(DbTable, DbFields, values, FALSE) => committed' = committed
     /\ Rollback => db' = committed /\ committed' = committed]_vars

\* A rollback has undone a dump, an update and a delete made since an insert
\* that committed.
C25_Witness ==
  /\ ret.op = "rollback"
  /\ db = committed
  /\ Cardinality(db[DbTable]) = 1
  /\ \E i \in InstIds :
       /\ inst[i].live
       /\ inst[i].is_dumped
       /\ \A r \in db[DbTable] : r["site_id"] # inst[i].attrs["site_id"]

\* ------------------------------------------------ failed inserts
FailClasses == {"SiteTest", "JointTable1Table2Test"}

\* Objects dumped into a store that can fail the INSERT.
NextFail ==
  \/ \E i \in InstIds, cls \in FailClasses :
       \E fields \in [FieldColumns(cls) -> Vals] : Construct(i, cls, fields)
  \/ \E i \in InstIds, force \in BOOLEAN, fault \in Faults \cup {"none"} :
       DumpUnder(i, force, fault)

SpecFail == Init /\ [][NextFail]_vars

\* The call of dump sent an INSERT and did not return.
C28_InsertFailed(r) ==
  /\ r.op = "dump"
  /\ r.outcome \notin {"inserted", "duplicate"}
  /\ \E k \in DOMAIN r.sql : r.sql[k].verb = "INSERT"

\* C28: when the INSERT sent by dump fails, dump ends with the error of the
\* insert, has sent one INSERT only, and leaves the object (flag and key
\* attributes) and the rows as they were.
C28_FailureAtomic ==
  [][\A i \in InstIds, force \in BOOLEAN, fault \in Faults \cup {"none"} :
       (DumpUnder(i, force, fault) /\ C28_InsertFailed(ret')) =>
         /\ ret'.outcome \in Faults
         /\ Cardinality({k \in DOMAIN ret'.sql : ret'.sql[k].verb = "INSERT"}) = 1
         /\ inst' = inst
         /\ db' = db]_vars

\* The dump of a never-persisted keyed object failed because no row was returned.
C28_Witness ==
  /\ C28_InsertFailed(ret)
  /\ ret.outcome = "RuntimeError_NoRow"
  /\ inst[ret.who].cls = "SiteTest"
  /\ ~inst[ret.who].is_dumped
  /\ Attr(inst[ret.who], "site_id") = NULL

\* ------------------------------------------------ entity without updated_at
\* Table1Test declares neither created_at nor updated_at.
PlainClass == "Table1Test"

\* Objects of the plain entity constructed, dumped, changed and written back.
NextPlain ==
  \/ \E i \in InstIds : \E fields \in [FieldColumns(PlainClass) -> Vals] :
       Construct(i, PlainClass, fields)
  \/ \E i \in InstIds, force \in BOOLEAN : Dump(i, force)
  \/ \E i \in InstIds : \E col \in FieldColumns(PlainClass), v \in Vals : SetAttr(i, col, v)
  \/ \E i \in InstIds, columns \in {Star, Listed(<<"name_t1">>)} : Update(i, columns)

SpecPlain == Init /\ [][NextPlain]_vars

\* C29: update() on a persisted object of an entity without updated_at whose
\* row is stored updates the row and returns the object's key; update() never
\* raises once the UPDATE has modified the row.
C29_RefreshPlain ==
  [][\A i \in InstIds, columns \in {Star, Listed(<<"name_t1">>)} :
       (Update(i, columns) /\ ret'.rows # {}) =>
         /\ ret'.outcome = "ok"
         /\ ret'.key = pk(inst[i])]_vars

\* C30: dump() with force = False on an object whose is_dumped flag is set
\* (here with every field non-null) inserts no row and leaves the object's key
\* as it was, whatever was assigned to its fields since it was persisted.
C30_DumpedNeverInserts ==
  [][\A i \in InstIds :
       (Dump(i, FALSE) /\ inst[i].is_dumped /\ ~HasNullField(inst[i])) =>
         /\ db' = db
         /\ ret'.outcome # "inserted"
         /\ pk(inst'[i]) = pk(inst[i])]_vars

\* ------------------------------------------------ concurrent callers
\* Caller c runs dump(force=False) on the object in slot c over a connection of
\* its own: it sees the committed rows and the rows it has inserted itself.
View(c, table) == committed[table] \cup race.own[c]

\* Mutant: the insert is made only if no matching row is visible when it runs.
InsertsAfterCheck_Rechecks(saw, rows, o) ==
  saw = "False" /\ record_exists(rows, o).outcome = "False"

\* dump(): "if not force and self.record_exists" was evaluated before; the
\* insert depends on that answer alone.
InsertsAfterCheck(saw, rows, o) == saw = "False"

\* The existence check of dump(force=False), line 302.
RaceCheck(c) ==
  /\ UNCHANGED <<db, committed, seq, clock, inst, pool, scraper>>
  /\ inst[c].live
  /\ race.pc[c] = "start"
  /\ LET exists == record_exists(View(c, table_name(inst[c].cls)), inst[c])
     IN  /\ race' = [race EXCEPT !.pc[c] = "checked", !.saw[c] = exists.outcome]
         /\ ret' = Result("record_exists", c, exists.outcome, exists.rows, <<>>, exists.sql)

\* The rest of dump(force=False), lines 303-331, after the check answered.
RaceInsert(c) ==
  /\ UNCHANGED <<db, committed, clock, pool, scraper>>
  /\ inst[c].live
  /\ race.pc[c] = "checked"
  /\ LET o == inst[c]
         table == table_name(o.cls)
         payload == dict_record_without_pk(o)
         again == select_unique_record(View(c, table), table, payload)
         cols == InOrder(o.cls, DOMAIN payload)
         columns == IF "created_at" \in ColumnSet(o.cls) THEN Append(cols, "created_at") ELSE cols
         values == [k \in 1..Len(columns) |-> Attr(o, columns[k])]
         ins == insert_record(View(c, table), seq, table, columns, values)
     IN  IF race.saw[c] = "True"
           THEN /\ IF again.outcome = "ok" /\ again.rows # {}
                     THEN /\ inst' = [inst EXCEPT ![c] = WithKey(o, TheRow(again.rows))]
                          /\ ret' = Result("dump", c, "duplicate", again.rows,
                                           KeyOf(o.cls, TheRow(again.rows)), again.sql)
                     ELSE /\ ret' = Result("dump", c, "TypeError", {}, <<>>, again.sql)
                          /\ UNCHANGED inst
                /\ race' = [race EXCEPT !.pc[c] = "done"]
                /\ UNCHANGED seq
         ELSE IF InsertsAfterCheck(race.saw[c], View(c, table), o) /\ ins.outcome = "ok"
           THEN /\ seq[table] <= MaxId
                /\ race' = [race EXCEPT !.pc[c] = "done", !.own[c] = @ \cup ins.rows]
                /\ seq' = SeqAfterInsert(seq, table, columns, values)
                /\ inst' = [inst EXCEPT ![c] = DumpInserted(o, TheRow(ins.rows))]
                /\ ret' = Result("dump", c, "inserted", ins.rows,
                                 KeyOf(o.cls, TheRow(ins.rows)), ins.sql)
         ELSE /\ race' = [race EXCEPT !.pc[c] = "done"]
              /\ ret' = Result("dump", c, IF ins.outcome # "ok" THEN ins.outcome ELSE race.saw[c],
                               {}, <<>>, <<>>)
              /\ UNCHANGED <<seq, inst>>

\* The caller commits its transaction.
RaceCommit(c) ==
  /\ UNCHANGED <<db, seq, clock, inst, pool, scraper>>
  /\ race.pc[c] = "done"
  /\ committed' = [t \in Tables |->
                     IF t = table_name(inst[c].cls) THEN committed[t] \cup race.own[c]
                     ELSE committed[t]]
  /\ race' = [race EXCEPT !.pc[c] = "committed", !.own[c] = {}]
  /\ ret' = Result("commit", c, "ok", {}, <<>>, <<>>)

\* Two callers, each constructing an object and persisting it.
NextRace ==
  \/ \E i \in InstIds, cls \in InstClasses :
       \E fields \in [FieldColumns(cls) -> Vals] : Construct(i, cls, fields)
  \/ \E c \in Callers : RaceCheck(c)
  \/ \E c \in Callers : RaceInsert(c)
  \/ \E c \in Callers : RaceCommit(c)

SpecRace == Init /\ [][NextRace]_vars

\* C23: a caller whose check answered that no row exists inserts its row,
\* whatever has been committed since the check; no step of one caller is held
\* back by the position of the other.
C23_NoAtomicCheckAndInsert ==
  [][\A c \in Callers :
       (RaceInsert(c) /\ race.saw[c] = "False") =>
         /\ ret'.outcome = "inserted"
         /\ Cardinality(race'.own[c]) = Cardinality(race.own[c]) + 1]_vars

\* Both callers saw no row, both inserted and committed: the store holds two
\* rows equal in every field to both value-equal objects.
C23_Witness ==
  /\ \A c \in Callers : race.pc[c] = "committed" /\ race.saw[c] = "False"
  /\ \A col \in FieldColumns("SiteTest") :
       Attr(inst[1], col) = Attr(inst[2], col) /\ Attr(inst[1], col) # NULL
  /\ Cardinality(EqualRows(committed[DbTable], inst[1])) = 2
  /\ pk(inst[1]) # pk(inst[2])

=============================================================================
